---- MODULE Spec2Model ----
(***************************************************************************)
(* The terminal command dispatcher of the playground client                *)
(* (client/src/utils/pg/command/command.ts): PgCommandManager.execute,     *)
(* formatCmdList and getEventName, as a state machine.                     *)
(*                                                                         *)
(* A JavaScript string is a sequence of one-character strings, so that     *)
(* trim and split act on characters.  A JavaScript value that may be       *)
(* undefined is a record [def, v]: Undefined, or Val(s) for the string s.  *)
(***************************************************************************)
EXTENDS Integers, Sequences, FiniteSets, TLC

VARIABLES commands, queue, calls, log

\* PgThemeManager: the registered lists, the storage of the browser, the
\* current theme and font, the set calls under way and the events
\* dispatched; convertToCSS: the style bag and the text made of it
VARIABLES themes, fonts, localStorage, theme, font, sets, dispatched,
          component, css

cmdVars == <<commands, queue, calls, log>>

themeVars == <<themes, fonts, localStorage, theme, font, sets, dispatched>>

cssVars == <<component, css>>

vars == <<cmdVars, themeVars, cssVars>>

----------------------------------------------------------------------------
(* Bounds of the model.                                                    *)

\* longest raw input line handed to execute in Spec
MaxLen == 5
\* number of execute calls that may be in flight together in SpecQ
NCalls == 2

----------------------------------------------------------------------------
(* Characters and strings.                                                 *)

\* the characters a typed input line is made of
InputChars == {"f", "b", "x", " ", "\t"}

\* String.prototype.trim removes these from both ends
WhiteSpace == {" ", "\t"}

\* /^[a-zA-Z-]+$/ restricted to the characters command names use
AlphaChars == {"a", "b", "c", "f", "x"}

\* collation rank of a character: digits sort before letters
CharRank(ch) ==
    CASE ch = "1" -> 1
      [] ch = "a" -> 2
      [] ch = "b" -> 3
      [] ch = "c" -> 4
      [] ch = "f" -> 5
      [] ch = "x" -> 6
      [] OTHER -> 0

Undefined == [def |-> FALSE, v |-> <<>>]
Val(s) == [def |-> TRUE, v |-> s]

\* JavaScript truthiness of a string-or-undefined value: !x is ~Truthy(x)
Truthy(x) == x.def /\ x.v # <<>>

\* arr[idx] for a 0-based index: undefined beyond the end
At(arr, idx) == IF idx + 1 <= Len(arr) THEN Val(arr[idx + 1]) ELSE Undefined

\* arr.slice(from) for a 0-based index
Slice(arr, from) == IF from >= Len(arr) THEN <<>> ELSE SubSeq(arr, from + 1, Len(arr))

\* input.trim()
RECURSIVE TrimStart(_)
TrimStart(s) ==
    IF s # <<>> /\ Head(s) \in WhiteSpace THEN TrimStart(Tail(s)) ELSE s

RECURSIVE TrimEnd(_)
TrimEnd(s) ==
    IF s # <<>> /\ s[Len(s)] \in WhiteSpace
    THEN TrimEnd(SubSeq(s, 1, Len(s) - 1))
    ELSE s

Trim(s) == TrimEnd(TrimStart(s))

\* input.split(" "): a new token starts at every single space character
RECURSIVE SplitFrom(_, _, _)
SplitFrom(s, cur, acc) ==
    IF s = <<>> THEN Append(acc, cur)
    ELSE IF Head(s) = " " THEN SplitFrom(Tail(s), <<>>, Append(acc, cur))
    ELSE SplitFrom(Tail(s), Append(cur, Head(s)), acc)

Split(s) == SplitFrom(s, <<>>, <<>>)

\* every input line of at most n characters
Lines(n) == UNION {[1..m -> InputChars] : m \in 0..n}

AllLines == Lines(MaxLen)

----------------------------------------------------------------------------
(* The Command Tree: PgCommandManager.commands.                            *)
(*                                                                         *)
(* A tree is a record: top maps a code name (a key of the commands        *)
(* object) to a node, nodes maps a node to its CommandImpl fields.         *)
(* hasArgs, hasRun and hasSub say whether the optional field args, run or  *)
(* subcommands is present; preCheck is PgCommon.toArray(cmd.preCheck).     *)
(*                                                                         *)
(* The variable commands holds which tree the program was built with and   *)
(* the present content of the subcommands array of every node: the one     *)
(* part of the tree that the code writes (list.sort sorts in place).       *)

Arg(n, opt) == [name |-> n, optional |-> opt]

Leaf(n, hasArgs, args, pre) ==
    [name |-> n, hasArgs |-> hasArgs, args |-> args, preCheck |-> pre,
     hasRun |-> TRUE, hasSub |-> FALSE, subcommands |-> <<>>]

Group(n, hasArgs, args, pre, subs) ==
    [name |-> n, hasArgs |-> hasArgs, args |-> args, preCheck |-> pre,
     hasRun |-> FALSE, hasSub |-> TRUE, subcommands |-> subs]

\* neither run nor subcommands: both are optional in WithSubcommands
Bare(n, hasArgs, args, pre) ==
    [name |-> n, hasArgs |-> hasArgs, args |-> args, preCheck |-> pre,
     hasRun |-> FALSE, hasSub |-> FALSE, subcommands |-> <<>>]

\* width of the name column of the usage block
NameColumn == 25

LongName == [n \in 1..NameColumn |-> "a"]

\* f > { x > { b }, b(target) },  b(a?, t),  x(s, o?)
Tree1 ==
    [top |-> (<<"f">> :> "F") @@ (<<"b">> :> "B") @@ (<<"x">> :> "X"),
     nodes |->
        ("F" :> Group(<<"f">>, FALSE, <<>>, <<"pF">>, <<"FX", "FB">>))
     @@ ("FB" :> Leaf(<<"b">>, TRUE, <<Arg("target", FALSE)>>, <<"pB1", "pB2">>))
     @@ ("FX" :> Group(<<"x">>, FALSE, <<>>, <<>>, <<"FXB">>))
     @@ ("FXB" :> Leaf(<<"b">>, FALSE, <<>>, <<>>))
     @@ ("B" :> Leaf(<<"b">>, TRUE, <<Arg("a", TRUE), Arg("t", FALSE)>>, <<>>))
     @@ ("X" :> Leaf(<<"x">>, TRUE, <<Arg("s", FALSE), Arg("o", TRUE)>>, <<"pX">>))]

\* f > { f(a?) } with args: [],  b > { 1, a } with args: [],  x shown as "c"
Tree2 ==
    [top |-> (<<"f">> :> "F") @@ (<<"b">> :> "B") @@ (<<"x">> :> "X"),
     nodes |->
        ("F" :> Group(<<"f">>, TRUE, <<>>, <<"pF">>, <<"FF">>))
     @@ ("FF" :> Leaf(<<"f">>, TRUE, <<Arg("a", TRUE)>>, <<"pFF">>))
     @@ ("B" :> Group(<<"b">>, TRUE, <<>>, <<>>, <<"B1", "BA">>))
     @@ ("B1" :> Leaf(<<"1">>, FALSE, <<>>, <<>>))
     @@ ("BA" :> Leaf(<<"a">>, FALSE, <<>>, <<>>))
     @@ ("X" :> Leaf(<<"c">>, TRUE, <<>>, <<>>))]

\* f > { aaaaaaaaaaaaaaaaaaaaaaaaa },  b(a?) without run,  x(a) > { b }
Tree3 ==
    [top |-> (<<"f">> :> "F") @@ (<<"b">> :> "B") @@ (<<"x">> :> "X"),
     nodes |->
        ("F" :> Group(<<"f">>, FALSE, <<>>, <<>>, <<"FL">>))
     @@ ("FL" :> Leaf(LongName, FALSE, <<>>, <<>>))
     @@ ("B" :> Bare(<<"b">>, TRUE, <<Arg("a", TRUE)>>, <<>>))
     @@ ("X" :> Group(<<"x">>, TRUE, <<Arg("a", FALSE)>>, <<"pX">>, <<"XB">>))
     @@ ("XB" :> Leaf(<<"b">>, FALSE, <<>>, <<>>))]

TreeNames == {"Tree1", "Tree2", "Tree3"}

TreeNamed(t) ==
    CASE t = "Tree1" -> Tree1
      [] t = "Tree2" -> Tree2
      [] t = "Tree3" -> Tree3

\* the tree as the program is started with it
Built(t) ==
    [tree |-> t,
     subcommands |-> [n \in DOMAIN TreeNamed(t).nodes |-> TreeNamed(t).nodes[n].subcommands]]

\* PgCommandManager.commands: code name -> top-level command
Top == TreeNamed(commands.tree).top

\* the command that is node n, as it is now
NodeOf(n) ==
    [TreeNamed(commands.tree).nodes[n] EXCEPT !.subcommands = commands.subcommands[n]]

\* cmd.subcommands?.map((cmd) => cmd.name)
SubNames(n) == [j \in 1..Len(NodeOf(n).subcommands) |-> NodeOf(NodeOf(n).subcommands[j]).name]

\* cmd.subcommands?.some((cmd) => cmd.name === token)
HasSubNamed(n, token) ==
    /\ NodeOf(n).hasSub
    /\ \E j \in 1..Len(NodeOf(n).subcommands) : SubNames(n)[j] = token

\* cmd.subcommands?.find((cmd) => cmd.name === token): the first match
FindSub(n, token) ==
    LET subs == NodeOf(n).subcommands
        j == CHOOSE j \in 1..Len(subs) :
                /\ SubNames(n)[j] = token
                /\ \A h \in 1..(j - 1) : SubNames(n)[h] # token
    IN subs[j]

----------------------------------------------------------------------------
(* formatCmdList.                                                          *)

\* /^[a-zA-Z-]+$/.test(name)
IsAlphabetic(name) == name # <<>> /\ \A j \in 1..Len(name) : name[j] \in AlphaChars

\* a.localeCompare(b): negative, zero or positive
RECURSIVE LocaleCompare(_, _)
LocaleCompare(a, b) ==
    IF a = <<>> /\ b = <<>> THEN 0
    ELSE IF a = <<>> THEN -1
    ELSE IF b = <<>> THEN 1
    ELSE IF CharRank(a[1]) < CharRank(b[1]) THEN -1
    ELSE IF CharRank(a[1]) > CharRank(b[1]) THEN 1
    ELSE LocaleCompare(SubSeq(a, 2, Len(a)), SubSeq(b, 2, Len(b)))

\* the comparator handed to list.sort, on two nodes
CompareFn(a, b) ==
    IF ~IsAlphabetic(NodeOf(b).name) THEN -1
    ELSE LocaleCompare(NodeOf(a).name, NodeOf(b).name)

Range(list) == {list[j] : j \in 1..Len(list)}

\* the orders of the elements of list, each element of list once
Orders(list) ==
    {p \in [1..Len(list) -> Range(list)] :
        \A e \in Range(list) :
            Cardinality({j \in 1..Len(list) : p[j] = e}) =
            Cardinality({j \in 1..Len(list) : list[j] = e})}

\* a consistent comparison function for the elements of list in the sense
\* of Array.prototype.sort: it orders them totally
IsConsistent(list) ==
    /\ \A a \in Range(list) : CompareFn(a, a) = 0
    /\ \A a, b \in Range(list) : (CompareFn(a, b) < 0) = (CompareFn(b, a) > 0)
    /\ \A a, b, c \in Range(list) :
          CompareFn(a, b) <= 0 /\ CompareFn(b, c) <= 0 => CompareFn(a, c) <= 0

\* list.sort(compareFn): what the array may hold afterwards.  With a
\* consistent comparator it is the stable ascending order; with an
\* inconsistent one the order is implementation-defined.
SortOutcomes(list) ==
    IF IsConsistent(list)
    THEN {p \in Orders(list) :
            \A h, j \in 1..Len(list) : h < j => CompareFn(p[h], p[j]) <= 0}
    ELSE Orders(list)

\* new Array(25 - cmd.name.length).fill(" ").reduce((acc, v) => acc + v)
\* throws for a negative length (RangeError) and for length zero (reduce
\* of an empty array with no initial value)
PaddingThrows(name) == NameColumn - Len(name) <= 0

\* the lines of the formatted list: each name with its padding
FormatLines(list) ==
    [j \in 1..Len(list) |->
        [name |-> NodeOf(list[j]).name, pad |-> NameColumn - Len(NodeOf(list[j]).name)]]

FormatThrows(list) == \E j \in 1..Len(list) : PaddingThrows(NodeOf(list[j]).name)

\* getEventName(name, kind)
GetEventName(name, kind) ==
    IF kind = "start" THEN <<"ondidrunstart", name>> ELSE <<"ondidrunfinish", name>>

----------------------------------------------------------------------------
(* The state of the dispatcher.                                            *)
(*                                                                         *)
(* calls[c] is one call of execute: its position pc, the locals of the     *)
(* callback (input, tokens, cmdName, cmd, args, i, parsedArgs; k counts    *)
(* the prechecks already awaited at this position) and how it ended.       *)
(* queue is the order in which PgTerminal.process admits callbacks.  log   *)
(* records what the outside observes: dispatched events, precheck and      *)
(* handler invocations, terminal output.                                   *)

Calls == 1..NCalls

NoError == [kind |-> "none", token |-> <<>>, arg |-> "", names |-> <<>>, count |-> 0]

IdleCall ==
    [pc |-> "idle", input |-> <<>>, tokens |-> <<>>, cmdName |-> <<>>,
     cmd |-> "none", args |-> <<>>, i |-> 0, k |-> 0, parsedArgs |-> <<>>,
     result |-> Undefined, error |-> NoError, outcome |-> [state |-> "pending"]]

\* what a handler may resolve to
HandlerResults == {Val(<<"r">>), Undefined}

\* no command is under way
NoCommand ==
    /\ queue = <<>>
    /\ calls = [c \in Calls |-> IdleCall]
    /\ log = <<>>

\* PgThemeManager.create was not called
NoThemeManager ==
    /\ themes = <<>> /\ fonts = <<>>
    /\ localStorage = <<>>
    /\ theme = <<>> /\ font = <<>>
    /\ sets = <<>> /\ dispatched = <<>>

\* convertToCSS was not called
NoComponent == component = <<>> /\ css = <<>>

Init ==
    /\ commands \in {Built(t) : t \in TreeNames}
    /\ NoCommand
    /\ NoThemeManager
    /\ NoComponent

\* the callback ends by returning v
Returned(call, v) == [call EXCEPT !.pc = "done", !.result = v]

\* the callback ends by throwing err
Thrown(call, err) == [call EXCEPT !.pc = "done", !.error = err]

----------------------------------------------------------------------------
(* PgTerminal.process: one callback at a time, in the order of the calls.  *)

\* the callback of call c may start: it is the oldest one not yet settled
ProcessAdmits(c) == queue # <<>> /\ Head(queue) = c

\* what the promise of execute settles with: the result the callback
\* returned, or the error it threw
Settle(call) ==
    IF call.error.kind # "none"
    THEN [state |-> "rejected", error |-> call.error]
    ELSE [state |-> "fulfilled", value |-> call.result]

\* an execute that dispatches the start event before it hands the rest of
\* its body to PgTerminal.process
SubmitAndStart(c, raw) ==
    /\ calls[c].pc = "idle"
    /\ calls' = [calls EXCEPT ![c] = [IdleCall EXCEPT !.pc = "queued", !.input = raw]]
    /\ queue' = Append(queue, c)
    /\ log' = Append(log,
            [type |-> "event", call |-> c,
             name |-> <<"ondidrunstart", Split(Trim(raw))[1]>>,
             detail |-> Val(Trim(raw))])
    /\ UNCHANGED commands
    /\ UNCHANGED <<themeVars, cssVars>>

\* execute(input) is called: its callback is handed to PgTerminal.process
Submit(c, raw) ==
    /\ calls[c].pc = "idle"
    /\ calls' = [calls EXCEPT ![c] = [IdleCall EXCEPT !.pc = "queued", !.input = raw]]
    /\ queue' = Append(queue, c)
    /\ UNCHANGED <<commands, log>>
    /\ UNCHANGED <<themeVars, cssVars>>

\* the callback of c has settled: process lets the next one in and the
\* promise of execute settles with the callback's result or error
ProcessEnd(c) ==
    /\ calls[c].pc = "done"
    /\ queue' = SelectSeq(queue, LAMBDA d : d # c)
    /\ calls' = [calls EXCEPT ![c].pc = "settled", ![c].outcome = Settle(calls[c])]
    /\ UNCHANGED <<commands, log>>
    /\ UNCHANGED <<themeVars, cssVars>>

----------------------------------------------------------------------------
(* PgCommandManager.execute: the callback, one action per stretch of code  *)
(* between two suspension points.                                          *)

Err(kind, token, arg, names, count) ==
    [kind |-> kind, token |-> token, arg |-> arg, names |-> names, count |-> count]

\* a lookup that accepts a token which only starts with a code name
FindCommandPrefix(inputCmdName) ==
    {cmdName \in DOMAIN Top :
        /\ Len(cmdName) <= Len(inputCmdName)
        /\ SubSeq(inputCmdName, 1, Len(cmdName)) = cmdName}

\* PgCommon.entries(commands).find(([cmdName]) => cmdName === inputCmdName):
\* the code names that match; the keys of an object differ from each other
FindCommand(inputCmdName) == {cmdName \in DOMAIN Top : cmdName = inputCmdName}

\* const subCmd = ...find(name === token); if (subCmd) cmd = subCmd
Descend(cmd, token) == IF HasSubNamed(cmd, token) THEN FindSub(cmd, token) ELSE cmd

\* if (nextToken) { if (!isNextTokenSubcommand) ... }
TakesArgs(cmd, nextToken) == Truthy(nextToken) /\ ~HasSubNamed(cmd, nextToken.v)

\* a test that also takes an empty argument list for a missing one
ArgsMissingOrEmpty(cmd) == ~NodeOf(cmd).hasArgs \/ NodeOf(cmd).args = <<>>

\* if (!cmd.args)
ArgsMissing(cmd) == ~NodeOf(cmd).hasArgs

\* a count check that lets one argument too many through
TooManyArgsOffByOne(cmd, args) == Len(args) > Len(NodeOf(cmd).args) + 1

\* if (args.length > (cmd.args.length ?? 0))
TooManyArgs(cmd, args) == Len(args) > Len(NodeOf(cmd).args)

\* const isLast = +i === tokens.length - 1
IsLast(call) == call.i = Len(call.tokens) - 1

\* the loop over cmd.args that fills parsedArgs, from the j-th spec on
RECURSIVE ParseFrom(_, _, _, _)
ParseFrom(specs, args, j, parsed) ==
    IF j >= Len(specs) THEN [ok |-> TRUE, missing |-> "", parsed |-> parsed]
    ELSE LET arg == specs[j + 1]
             inputArg == At(args, j)
         IN IF ~Truthy(inputArg) /\ ~arg.optional
            THEN [ok |-> FALSE, missing |-> arg.name, parsed |-> parsed]
            ELSE ParseFrom(specs, args, j + 1, (arg.name :> inputArg) @@ parsed)

\* a binding that starts at the second argument token
ParseArgsShifted(specs, args) == ParseFrom(specs, Slice(args, 1), 0, <<>>)

\* a binding that never reports a missing argument
ParseArgsLenient(specs, args) ==
    [ok |-> TRUE, missing |-> "",
     parsed |-> [name \in {specs[n].name : n \in 1..Len(specs)} |->
                    At(args, (CHOOSE n \in 1..Len(specs) : specs[n].name = name) - 1)]]

ParseArgs(specs, args) == ParseFrom(specs, args, 0, <<>>)

\* lines 185-209: trim, split, look the command up, dispatch the start event
Enter(c) ==
    /\ calls[c].pc = "queued"
    /\ ProcessAdmits(c)
    /\ LET input == Trim(calls[c].input)
           tokens == Split(input)
           inputCmdName == At(tokens, 0)
           cmdDef == FindCommand(inputCmdName.v)
           call == [calls[c] EXCEPT !.input = input, !.tokens = tokens]
       IN IF ~Truthy(inputCmdName)
          THEN /\ calls' = [calls EXCEPT ![c] = Returned(call, Undefined)]
               /\ log' = log
          ELSE IF cmdDef = {}
          THEN /\ calls' = [calls EXCEPT ![c] =
                    Thrown(call, Err("NotFound", inputCmdName.v, "", <<>>, 0))]
               /\ log' = log
          ELSE \E cmdName \in cmdDef :
               /\ calls' = [calls EXCEPT ![c] =
                    [call EXCEPT !.pc = "walk", !.cmdName = cmdName,
                                 !.cmd = Top[cmdName],
                                 !.args = <<>>, !.i = 0]]
               /\ log' = Append(log,
                    [type |-> "event", call |-> c,
                     name |-> GetEventName(cmdName, "start"),
                     detail |-> Val(input)])
    /\ UNCHANGED <<commands, queue>>
    /\ UNCHANGED <<themeVars, cssVars>>

\* lines 213-238: descend into the subcommand the token names, then take
\* the rest of the line as arguments when the next token names no subcommand
Walk(c) ==
    /\ calls[c].pc = "walk"
    /\ LET call == calls[c]
           token == call.tokens[call.i + 1]
           nextToken == At(call.tokens, call.i + 1)
           cmd == Descend(call.cmd, token)
           args == Slice(call.tokens, call.i + 1)
       IN IF TakesArgs(cmd, nextToken)
          THEN IF ArgsMissing(cmd)
               THEN calls' = [calls EXCEPT ![c] =
                        Thrown([call EXCEPT !.cmd = cmd, !.args = args],
                               Err("NoSubcommand", nextToken.v, "", SubNames(cmd), 0))]
               ELSE IF TooManyArgs(cmd, args)
               THEN calls' = [calls EXCEPT ![c] =
                        Thrown([call EXCEPT !.cmd = cmd, !.args = args],
                               Err("TooManyArgs", <<>>, "", <<>>, Len(args)))]
               ELSE calls' = [calls EXCEPT ![c] =
                        [call EXCEPT !.cmd = cmd, !.args = args, !.pc = "preCheck", !.k = 0]]
          ELSE calls' = [calls EXCEPT ![c] =
                        [call EXCEPT !.cmd = cmd, !.pc = "preCheck", !.k = 0]]
    /\ UNCHANGED <<commands, queue, log>>
    /\ UNCHANGED <<themeVars, cssVars>>

\* lines 241-243: the next precheck of cmd is called and awaited
CallPreCheck(c) ==
    /\ calls[c].pc = "preCheck"
    /\ calls[c].k < Len(NodeOf(calls[c].cmd).preCheck)
    /\ calls' = [calls EXCEPT ![c].pc = "awaitPreCheck"]
    /\ log' = Append(log,
            [type |-> "preCheck", call |-> c, cmd |-> calls[c].cmd,
             check |-> NodeOf(calls[c].cmd).preCheck[calls[c].k + 1]])
    /\ UNCHANGED <<commands, queue>>
    /\ UNCHANGED <<themeVars, cssVars>>

\* the awaited precheck returns, or throws and ends the callback
PreCheckSettled(c) ==
    /\ calls[c].pc = "awaitPreCheck"
    /\ \/ calls' = [calls EXCEPT ![c].pc = "preCheck", ![c].k = calls[c].k + 1]
       \/ calls' = [calls EXCEPT ![c] =
                      Thrown(calls[c], Err("PreCheck", <<>>, "", <<>>, 0))]
    /\ UNCHANGED <<commands, queue, log>>
    /\ UNCHANGED <<themeVars, cssVars>>

\* the prechecks of this position are over
ChecksDone(c) ==
    /\ calls[c].pc = "preCheck"
    /\ calls[c].k = Len(NodeOf(calls[c].cmd).preCheck)

\* line 248: if (!isLast && !args.length) continue
ContinueLoop(c) ==
    /\ ChecksDone(c)
    /\ ~IsLast(calls[c]) /\ calls[c].args = <<>>
    /\ calls' = [calls EXCEPT ![c].pc = "walk", ![c].i = calls[c].i + 1]
    /\ UNCHANGED <<commands, queue, log>>
    /\ UNCHANGED <<themeVars, cssVars>>

\* lines 251-261: no command processor: sort the subcommands in place,
\* format them, print the usage block and leave the loop
ShowUsage(c) ==
    /\ ChecksDone(c)
    /\ IsLast(calls[c]) \/ calls[c].args # <<>>
    /\ ~NodeOf(calls[c].cmd).hasRun
    /\ LET call == calls[c]
           cmd == NodeOf(call.cmd)
       IN IF ~cmd.hasSub
          THEN /\ calls' = [calls EXCEPT ![c] =
                      Thrown(call, Err("TypeError", <<>>, "", <<>>, 0))]
               /\ UNCHANGED <<commands, log>>
          ELSE \E sorted \in SortOutcomes(cmd.subcommands) :
               /\ commands' = [commands EXCEPT !.subcommands[call.cmd] = sorted]
               /\ IF FormatThrows(sorted)
                  THEN /\ calls' = [calls EXCEPT ![c] =
                              Thrown(call, Err("TypeError", <<>>, "", <<>>, 0))]
                       /\ log' = log
                  ELSE /\ calls' = [calls EXCEPT ![c] = Returned(call, Undefined)]
                       /\ log' = Append(log,
                              [type |-> "log", call |-> c, cmd |-> call.cmd,
                               usage |-> Append(SubSeq(call.tokens, 1, call.i), cmd.name),
                               lines |-> FormatLines(sorted)])
    /\ UNCHANGED queue
    /\ UNCHANGED <<themeVars, cssVars>>

\* a binding that calls the command processor before it reports a missing
\* required argument
BindAndRunUnchecked(c) ==
    /\ ChecksDone(c)
    /\ IsLast(calls[c]) \/ calls[c].args # <<>>
    /\ NodeOf(calls[c].cmd).hasRun
    /\ LET call == calls[c]
           bound == ParseArgs(NodeOf(call.cmd).args, call.args)
       IN /\ calls' = [calls EXCEPT ![c] =
                IF bound.ok
                THEN [call EXCEPT !.pc = "awaitRun", !.parsedArgs = bound.parsed]
                ELSE Thrown(call, Err("MissingArg", <<>>, bound.missing, <<>>, 0))]
          /\ log' = Append(log,
                [type |-> "run", call |-> c, cmd |-> call.cmd,
                 input |-> call.input, args |-> bound.parsed])
    /\ UNCHANGED <<commands, queue>>
    /\ UNCHANGED <<themeVars, cssVars>>

\* lines 263-277: bind the argument tokens to the argument specs and call
\* the command processor
BindAndRun(c) ==
    /\ ChecksDone(c)
    /\ IsLast(calls[c]) \/ calls[c].args # <<>>
    /\ NodeOf(calls[c].cmd).hasRun
    /\ LET call == calls[c]
           bound == ParseArgs(NodeOf(call.cmd).args, call.args)
       IN IF ~bound.ok
          THEN /\ calls' = [calls EXCEPT ![c] =
                      Thrown(call, Err("MissingArg", <<>>, bound.missing, <<>>, 0))]
               /\ log' = log
          ELSE /\ calls' = [calls EXCEPT ![c] =
                      [call EXCEPT !.pc = "awaitRun", !.parsedArgs = bound.parsed]]
               /\ log' = Append(log,
                      [type |-> "run", call |-> c, cmd |-> call.cmd,
                       input |-> call.input, args |-> bound.parsed])
    /\ UNCHANGED <<commands, queue>>
    /\ UNCHANGED <<themeVars, cssVars>>

\* lines 275-285: the awaited command processor resolves: dispatch the
\* finish event and return the result; or it throws and ends the callback
RunSettled(c) ==
    /\ calls[c].pc = "awaitRun"
    /\ \/ \E result \in HandlerResults :
            /\ calls' = [calls EXCEPT ![c] = Returned(calls[c], result)]
            /\ log' = Append(log,
                    [type |-> "event", call |-> c,
                     name |-> GetEventName(calls[c].cmdName, "finish"),
                     detail |-> result])
       \/ /\ calls' = [calls EXCEPT ![c] =
                        Thrown(calls[c], Err("Run", <<>>, "", <<>>, 0))]
          /\ log' = log
    /\ UNCHANGED <<commands, queue>>
    /\ UNCHANGED <<themeVars, cssVars>>

Step(c) ==
    \/ Enter(c)
    \/ Walk(c)
    \/ CallPreCheck(c)
    \/ PreCheckSettled(c)
    \/ ContinueLoop(c)
    \/ ShowUsage(c)
    \/ BindAndRun(c)
    \/ RunSettled(c)
    \/ ProcessEnd(c)

----------------------------------------------------------------------------
(* Spec: one caller that awaits every call of execute before the next,     *)
(* with every input line of at most MaxLen characters.                     *)

\* the caller, which awaited nothing else, calls execute(raw)
ExecuteAwaited ==
    /\ \A c \in Calls : calls[c].pc = "idle"
    /\ \E raw \in AllLines : Submit(1, raw)

\* the await of the caller ends with the result or the error of the call;
\* the record of the call and of what it did is dropped
AwaitReturns ==
    /\ calls[1].pc = "settled"
    /\ calls' = [c \in Calls |-> IdleCall]
    /\ log' = <<>>
    /\ UNCHANGED <<commands, queue>>
    /\ UNCHANGED <<themeVars, cssVars>>

\* the argument strings the facade is run with
FacadeArgs == {<<>>, <<"x">>}

\* PgTerminal.executeFromStr(str): the terminal takes str as the line the
\* user entered and hands it to execute
ExecuteFromStr(c, str) ==
    /\ calls' = [calls EXCEPT ![c] = [IdleCall EXCEPT !.pc = "queued", !.input = str]]
    /\ queue' = Append(queue, c)

\* lines 105-112: PgCommand[cmdCodeName].run(args), by a caller that
\* awaited everything else: the line is made of the display name of the
\* command and the arguments.  The entry of the log is written outside
\* every call of execute (call 0) and names the call the run made.
PgCommandRun ==
    /\ \A c \in Calls : calls[c].pc = "idle"
    /\ \E cmdCodeName \in DOMAIN Top, args \in FacadeArgs :
          LET cmdUiName == NodeOf(Top[cmdCodeName]).name
          IN /\ ExecuteFromStr(1, cmdUiName \o <<" ">> \o args)
             /\ log' = Append(log,
                    [type |-> "facade", call |-> 0, made |-> 1, cmd |-> cmdCodeName,
                     args |-> args])
    /\ UNCHANGED commands
    /\ UNCHANGED <<themeVars, cssVars>>

Next ==
    \/ ExecuteAwaited
    \/ PgCommandRun
    \/ AwaitReturns
    \/ \E c \in Calls : Step(c)

Spec == Init /\ [][Next]_vars

----------------------------------------------------------------------------
(* SpecQ: callers that do not await: up to NCalls calls of execute are     *)
(* submitted at any time, each with one of a few lines.                    *)

QLines == {<<>>, <<"f">>, <<"b">>, <<"f", " ", "b", " ", "x">>}

ExecuteNext(c) ==
    /\ \A d \in Calls : d < c => calls[d].pc # "idle"
    /\ \E raw \in QLines : Submit(c, raw)

NextQ ==
    \/ \E c \in Calls : ExecuteNext(c)
    \/ \E c \in Calls : Step(c)

SpecQ == Init /\ [][NextQ]_vars

----------------------------------------------------------------------------
(* What the claims speak of.                                               *)

\* the callback of c has ended
Ended(c) == calls[c].pc \in {"done", "settled"}

\* the callback of c has started: the line is tokenized
Started(c) == calls[c].pc \notin {"idle", "queued"}

FirstToken(c) == At(calls[c].tokens, 0)

\* the first token of c is the code name of a top-level command
Resolves(c) == Truthy(FirstToken(c)) /\ FirstToken(c).v \in DOMAIN Top

IsStart(e, c) == e.call = c /\ e.type = "event" /\ e.name[1] = "ondidrunstart"
IsFinish(e, c) == e.call = c /\ e.type = "event" /\ e.name[1] = "ondidrunfinish"
IsRun(e, c) == e.call = c /\ e.type = "run"
IsPreCheck(e, c) == e.call = c /\ e.type = "preCheck"
IsUsage(e, c) == e.call = c /\ e.type = "log"

Starts(c) == {j \in 1..Len(log) : IsStart(log[j], c)}
Finishes(c) == {j \in 1..Len(log) : IsFinish(log[j], c)}
Runs(c) == {j \in 1..Len(log) : IsRun(log[j], c)}
PreChecks(c) == {j \in 1..Len(log) : IsPreCheck(log[j], c)}
Usages(c) == {j \in 1..Len(log) : IsUsage(log[j], c)}

\* c is between the call of a precheck or handler and its settling
Suspended(c) == calls[c].pc \in {"awaitPreCheck", "awaitRun"}

\* c is inside locate -> precheck -> run -> notify
InSequence(c) == Started(c) /\ ~Ended(c)

----------------------------------------------------------------------------
\* C1: of two execute calls submitted without awaiting the first, the
\* whole sequence of the earlier one is over before the later one starts:
\* no two calls are inside their sequence (or suspended in a precheck or a
\* handler) together, and everything the outside observes of the earlier
\* call, its finish notification included, comes before everything of the
\* later call.
C1_Serialized ==
    /\ \A c, d \in Calls : c < d /\ Started(d) => Ended(c)
    /\ \A c, d \in Calls : c # d => ~(InSequence(c) /\ InSequence(d))
    /\ \A h, j \in 1..Len(log) : h < j => log[h].call <= log[j].call

\* the second call waits in the queue while the handler of the first is
\* suspended
C1_Witness ==
    /\ calls[1].pc = "awaitRun"
    /\ calls[2].pc = "queued"

\* C2: every call whose first token resolves a top-level command emits
\* exactly one start notification, and once its handler was invoked and
\* the call has ended it has emitted exactly one finish notification,
\* after the start, whether the handler returned or threw.
C2_OneStartOneFinish ==
    \A c \in Calls :
        Started(c) /\ Resolves(c) =>
            /\ Cardinality(Starts(c)) = 1
            /\ Ended(c) /\ Runs(c) # {} =>
                /\ Cardinality(Finishes(c)) = 1
                /\ \A h \in Starts(c), j \in Finishes(c) : h < j

\* C3: a call that fails before its handler is invoked never invokes the
\* handler, emits no finish notification, and the promise of execute
\* rejects with the very error that was thrown.
PreHandlerErrors == {"NoSubcommand", "TooManyArgs", "MissingArg", "PreCheck"}

C3_FailsBeforeHandler ==
    \A c \in Calls :
        Ended(c) /\ calls[c].error.kind \in PreHandlerErrors =>
            /\ Runs(c) = {}
            /\ Finishes(c) = {}
            /\ calls[c].pc = "settled" =>
                calls[c].outcome = [state |-> "rejected", error |-> calls[c].error]

\* a missing required argument reached the caller of execute
C3_Witness ==
    /\ calls[1].pc = "settled"
    /\ calls[1].outcome.state = "rejected"
    /\ calls[1].error.kind = "MissingArg"

\* C4 as stated: every line whose first token matches no top-level
\* command, the empty and the all-blank line included, fails with "not
\* found", and nothing is dispatched or run.
C4_NotFoundAlways ==
    \A c \in Calls :
        Started(c) /\ ~Resolves(c) =>
            /\ Ended(c)
            /\ calls[c].error.kind = "NotFound"
            /\ \A j \in 1..Len(log) : log[j].call # c

\* C4 as amended: a line whose first token is not empty and matches no
\* top-level command fails with "not found" naming that token; the empty
\* and the all-blank line return no result and raise no error; in both
\* cases nothing is dispatched and no precheck or handler runs.
C4_NotFoundOrNothing ==
    \A c \in Calls :
        Started(c) /\ ~Resolves(c) =>
            /\ Ended(c)
            /\ \A j \in 1..Len(log) : log[j].call # c
            /\ IF Truthy(FirstToken(c))
               THEN calls[c].error = Err("NotFound", FirstToken(c).v, "", <<>>, 0)
               ELSE calls[c].error = NoError /\ calls[c].result = Undefined

\* a line that starts with a word longer than a command name it begins
\* with was rejected as not found
C4_Witness ==
    /\ calls[1].pc = "settled"
    /\ calls[1].tokens = <<<<"f", "x">>, <<"b">>>>
    /\ calls[1].outcome = [state |-> "rejected",
                           error |-> Err("NotFound", <<"f", "x">>, "", <<>>, 0)]

\* the deepest command on the path of the tokens: from cmd, one child per
\* following token for as long as the token names a child
RECURSIVE DeepestFrom(_, _, _)
DeepestFrom(cmd, tokens, j) ==
    IF j <= Len(tokens) /\ HasSubNamed(cmd, tokens[j])
    THEN DeepestFrom(FindSub(cmd, tokens[j]), tokens, j + 1)
    ELSE cmd

Deepest(tokens) == DeepestFrom(Top[tokens[1]], tokens, 2)

\* C5: a call invokes at most one handler, and it is the handler of the
\* deepest command on the path that starts at the top-level command of the
\* first token and descends one child per following token.
C5_DeepestHandler ==
    \A c \in Calls :
        /\ Cardinality(Runs(c)) <= 1
        /\ \A j \in Runs(c) : log[j].cmd = Deepest(calls[c].tokens)

\* the argument specs of node n, and those that are not optional
Specs(n) == NodeOf(n).args
Required(n) == {m \in 1..Len(Specs(n)) : ~Specs(n)[m].optional}

\* the token after the position at which c stands
NextToken(c) == At(calls[c].tokens, calls[c].i + 1)

\* the tokens after the position at which c stands
Rest(c) == Slice(calls[c].tokens, calls[c].i + 1)

\* at the position at which c stands the next token is a word that names
\* no child of the current command
NextIsNoChild(c) ==
    /\ calls[c].cmd # "none"
    /\ Truthy(NextToken(c))
    /\ ~HasSubNamed(calls[c].cmd, NextToken(c).v)

\* no precheck of c threw
ChecksPassed(c) == calls[c].error.kind # "PreCheck"

\* C6: every handler invocation is that of the resolved command, receives
\* the trimmed input and a mapping whose keys are the names of the
\* argument specs, the Nth spec bound to the Nth argument token and the
\* specs beyond the tokens undefined; and a call that ends at a command
\* with a handler, with no more argument tokens than specs and a token for
\* every required spec, does invoke it.  "f b x" on f > b(target) invokes
\* the handler of b with target = "x".
C6_PositionalBinding ==
    \A c \in Calls :
        /\ \A j \in Runs(c) :
            LET e == log[j]
                call == calls[c]
                specs == Specs(e.cmd)
            IN /\ e.cmd = call.cmd
               /\ NodeOf(e.cmd).hasRun
               /\ e.input = call.input
               /\ e.input # <<>>
               /\ Head(e.input) \notin WhiteSpace
               /\ e.input[Len(e.input)] \notin WhiteSpace
               /\ IF NextIsNoChild(c) THEN call.args = Rest(c) ELSE call.args = <<>>
               /\ Len(call.args) <= Len(specs)
               /\ DOMAIN e.args = {specs[n].name : n \in 1..Len(specs)}
               /\ \A n \in 1..Len(specs) :
                    e.args[specs[n].name] =
                        IF n <= Len(call.args) THEN Val(call.args[n]) ELSE Undefined
        /\ ( /\ Ended(c) /\ calls[c].cmd # "none" /\ ChecksPassed(c)
             /\ NodeOf(calls[c].cmd).hasRun
             /\ NodeOf(calls[c].cmd).hasArgs \/ ~NextIsNoChild(c)
             /\ Len(Rest(c)) <= Len(Specs(calls[c].cmd))
             /\ \A n \in Required(calls[c].cmd) : Truthy(At(Rest(c), n - 1)) )
           => Cardinality(Runs(c)) = 1
        /\ ( /\ commands.tree = "Tree1"
             /\ calls[c].tokens = <<<<"f">>, <<"b">>, <<"x">>>>
             /\ Ended(c) /\ ChecksPassed(c) )
           => \E j \in Runs(c) :
                /\ log[j].cmd = "FB"
                /\ log[j].args = ("target" :> Val(<<"x">>))

\* "f b x" reached the handler of f > b with target bound to "x"
C6_Witness ==
    /\ commands.tree = "Tree1"
    /\ calls[1].pc = "awaitRun"
    /\ calls[1].tokens = <<<<"f">>, <<"b">>, <<"x">>>>
    /\ \E j \in Runs(1) : log[j].cmd = "FB" /\ log[j].args = ("target" :> Val(<<"x">>))

\* the first required spec of node n that has no token among args
FirstUnmet(n, args) ==
    CHOOSE m \in Required(n) :
        /\ ~Truthy(At(args, m - 1))
        /\ \A h \in Required(n) : h < m => Truthy(At(args, h - 1))

C8_TooManyArguments ==
    \A c \in Calls :
        ( /\ Ended(c) /\ NextIsNoChild(c)
          /\ NodeOf(calls[c].cmd).hasArgs
          /\ Len(Rest(c)) > Len(Specs(calls[c].cmd)) )
        => /\ calls[c].error = Err("TooManyArgs", <<>>, "", <<>>, Len(Rest(c)))
           /\ Runs(c) = {}
           /\ Finishes(c) = {}
           /\ Usages(c) = {}

\* "x f f" on x(a): two tokens for one spec
C8_Witness ==
    /\ commands.tree = "Tree3"
    /\ calls[1].pc = "settled"
    /\ calls[1].cmd = "X"
    /\ calls[1].outcome = [state |-> "rejected",
                           error |-> Err("TooManyArgs", <<>>, "", <<>>, 2)]

\* C9 as stated: when the next token names no child of the current
\* command and the command has no argument specs at all, its argument
\* list absent or empty, execute fails with "subcommand does not exist"
\* listing the subcommands of the current command, and nothing is invoked.
C9_NoSubcommandAbsentOrEmpty ==
    \A c \in Calls :
        ( /\ Ended(c) /\ NextIsNoChild(c)
          /\ ~NodeOf(calls[c].cmd).hasArgs \/ Specs(calls[c].cmd) = <<>> )
        => /\ calls[c].error =
                Err("NoSubcommand", NextToken(c).v, "", SubNames(calls[c].cmd), 0)
           /\ Runs(c) = {}
           /\ Finishes(c) = {}
           /\ Usages(c) = {}

\* C9 as amended: when the next token is a word that names no child of
\* the current command, then if the command has no argument list execute
\* fails with "subcommand does not exist" naming the token and listing the
\* subcommands of the current command, and if its argument list is
\* present but empty execute fails with the too-many-arguments error;
\* either way no handler and no usage block runs.
C9_NoSubcommandAbsent ==
    \A c \in Calls :
        ( /\ Ended(c) /\ NextIsNoChild(c)
          /\ ~NodeOf(calls[c].cmd).hasArgs \/ Specs(calls[c].cmd) = <<>> )
        => /\ calls[c].error =
                IF ~NodeOf(calls[c].cmd).hasArgs
                THEN Err("NoSubcommand", NextToken(c).v, "", SubNames(calls[c].cmd), 0)
                ELSE Err("TooManyArgs", <<>>, "", <<>>, Len(Rest(c)))
           /\ Runs(c) = {}
           /\ Finishes(c) = {}
           /\ Usages(c) = {}

\* "f f" on f > { x, b }: f names no child of f, which has no argument list
C9_Witness ==
    /\ commands.tree = "Tree1"
    /\ calls[1].pc = "settled"
    /\ calls[1].cmd = "F"
    /\ calls[1].outcome.state = "rejected"
    /\ calls[1].error.kind = "NoSubcommand"
    /\ calls[1].error.token = <<"f">>
    /\ Len(calls[1].error.names) = 2

\* C10: when the input ends at a command that has subcommands and no
\* handler (its prechecks passed), execute prints one usage block that
\* lists every immediate child of the command, invokes no handler, emits
\* no finish notification, raises no error and returns no result.
C10_UsageBlock ==
    \A c \in Calls :
        ( /\ Ended(c) /\ calls[c].cmd # "none" /\ ChecksPassed(c)
          /\ IsLast(calls[c])
          /\ NodeOf(calls[c].cmd).hasSub /\ ~NodeOf(calls[c].cmd).hasRun )
        => /\ Cardinality(Usages(c)) = 1
           /\ \A j \in Usages(c) :
                /\ Len(log[j].lines) = Len(NodeOf(calls[c].cmd).subcommands)
                /\ {log[j].lines[n].name : n \in 1..Len(log[j].lines)} =
                   {SubNames(calls[c].cmd)[n] : n \in 1..Len(SubNames(calls[c].cmd))}
           /\ Runs(c) = {}
           /\ Finishes(c) = {}
           /\ calls[c].error = NoError
           /\ calls[c].result = Undefined

----------------------------------------------------------------------------
\* the names of a printed usage block, top to bottom
PrintedNames(e) == [n \in 1..Len(e.lines) |-> e.lines[n].name]

\* C11: in every list that formatCmdList produced, every entry whose name
\* has a non-alphabetic character comes after every entry with an
\* alphabetic name, and the alphabetic names ascend.
C11_NonAlphabeticLast ==
    \A j \in 1..Len(log) :
        log[j].type = "log" =>
            LET names == PrintedNames(log[j])
            IN \A h, n \in 1..Len(names) :
                  /\ (IsAlphabetic(names[h]) /\ ~IsAlphabetic(names[n])) => h < n
                  /\ (IsAlphabetic(names[h]) /\ IsAlphabetic(names[n]) /\ h < n)
                        => LocaleCompare(names[h], names[n]) <= 0

----------------------------------------------------------------------------
\* the nodes of the tree the program was built with
Nodes == DOMAIN TreeNamed(commands.tree).nodes

IsTopLevel(n) == \E cmdName \in DOMAIN Top : Top[cmdName] = n

\* the command that has n among its subcommands
ParentOf(n) == CHOOSE p \in Nodes : n \in Range(NodeOf(p).subcommands)

\* the commands from the top-level command down to n
RECURSIVE PathTo(_)
PathTo(n) == IF IsTopLevel(n) THEN <<n>> ELSE Append(PathTo(ParentOf(n)), n)

\* the first time call c called check number k of command n, 0 if never
FirstCheck(c, n, k) ==
    LET at == {j \in PreChecks(c) :
                 log[j].cmd = n /\ log[j].check = NodeOf(n).preCheck[k]}
    IN IF at = {} THEN 0 ELSE CHOOSE j \in at : \A h \in at : j <= h

\* C12: when the handler of a call is invoked, every precondition check of
\* every command on the path from the top-level command to the handler's
\* command has run before it, the checks of one command in their declared
\* order and those of an ancestor before those of its descendant; a check
\* is awaited before anything else of the call happens; and when a check
\* throws, no later check and no handler runs and the promise of execute
\* rejects with that error.
C12_PreChecksInOrder ==
    \A c \in Calls :
        /\ \A r \in Runs(c) :
              LET path == PathTo(log[r].cmd)
              IN /\ \A p \in 1..Len(path) :
                      \A k \in 1..Len(NodeOf(path[p]).preCheck) :
                          /\ FirstCheck(c, path[p], k) # 0
                          /\ FirstCheck(c, path[p], k) < r
                          /\ \A l \in 1..(k - 1) :
                               FirstCheck(c, path[p], l) < FirstCheck(c, path[p], k)
                          /\ \A q \in 1..(p - 1) :
                               \A l \in 1..Len(NodeOf(path[q]).preCheck) :
                                   FirstCheck(c, path[q], l) < FirstCheck(c, path[p], k)
        /\ calls[c].pc = "awaitPreCheck" =>
              /\ PreChecks(c) # {}
              /\ \A j \in 1..Len(log) : log[j].call = c => \E h \in PreChecks(c) : j <= h
        /\ calls[c].error.kind = "PreCheck" =>
              /\ Runs(c) = {}
              /\ \A j \in 1..Len(log) : log[j].call = c => \E h \in PreChecks(c) : j <= h
              /\ calls[c].pc = "settled" =>
                    calls[c].outcome = [state |-> "rejected", error |-> calls[c].error]

\* the same, for the calls whose top-level command has no child of its
\* own name
C12_ExceptSameNameChild ==
    (\A c \in Calls :
        calls[c].cmdName # <<>> => ~HasSubNamed(Top[calls[c].cmdName], calls[c].cmdName))
    => C12_PreChecksInOrder

----------------------------------------------------------------------------
\* C13: no execute call changes the Command Tree: whatever calls were
\* made, every command has the children it was built with, in the order it
\* was built with (names, arguments and handlers are never written).
C13_TreeUnchanged == commands = Built(commands.tree)

----------------------------------------------------------------------------
\* the runs through the facade that made call c
FacadeRuns(c) == {j \in 1..Len(log) : log[j].type = "facade" /\ log[j].made = c}

\* C14: a run of the command with code name C through PgCommand[C].run
\* resolves that command, also when its display name is not C: the call
\* finds the top-level command C, dispatches one start event, named by the
\* prefix plus C and carrying the input, a handler it invokes belongs to C
\* or to a descendant of C, and when the handler returns it dispatches one
\* finish event, named by the prefix plus C and carrying the result.
C14_FacadeResolves ==
    \A c \in Calls : \A f \in FacadeRuns(c) :
        Ended(c) =>
            /\ calls[c].cmdName = log[f].cmd
            /\ Cardinality(Starts(c)) = 1
            /\ \A h \in Starts(c) :
                  /\ log[h].name = GetEventName(log[f].cmd, "start")
                  /\ log[h].detail = Val(calls[c].input)
            /\ \A r \in Runs(c) : PathTo(log[r].cmd)[1] = Top[log[f].cmd]
            /\ (Runs(c) # {} /\ calls[c].error = NoError) =>
                  /\ Cardinality(Finishes(c)) = 1
                  /\ \A h \in Finishes(c) :
                        /\ log[h].name = GetEventName(log[f].cmd, "finish")
                        /\ log[h].detail = calls[c].result

\* the same, for the commands whose display name is their code name
C14_SameNames ==
    (\A c \in Calls : \A f \in FacadeRuns(c) :
        NodeOf(Top[log[f].cmd]).name = log[f].cmd)
    => C14_FacadeResolves

----------------------------------------------------------------------------
\* the words of a line: its maximal runs of characters other than the
\* space (a tab inside a line is taken as part of a word, as split(" ")
\* takes it)
RECURSIVE WordsFrom(_, _, _)
WordsFrom(s, cur, acc) ==
    IF s = <<>> THEN (IF cur = <<>> THEN acc ELSE Append(acc, cur))
    ELSE IF Head(s) = " "
         THEN WordsFrom(Tail(s), <<>>, IF cur = <<>> THEN acc ELSE Append(acc, cur))
         ELSE WordsFrom(Tail(s), Append(cur, Head(s)), acc)

Words(s) == WordsFrom(s, <<>>, <<>>)

\* how many times call c called check number k of command n
TimesChecked(c, n, k) ==
    Cardinality({j \in PreChecks(c) :
                    log[j].cmd = n /\ log[j].check = NodeOf(n).preCheck[k]})

\* C20: the tokens of a line are its words: the spaces between two words,
\* however many, produce no empty token, so that lines that differ
\* only in their whitespace have the same tokens and are dispatched alike;
\* and no precheck of a command runs more than once in a call.
C20_WhitespaceSplit ==
    \A c \in Calls :
        (Started(c) /\ calls[c].input # <<>>) =>
            /\ \A j \in 1..Len(calls[c].tokens) : calls[c].tokens[j] # <<>>
            /\ calls[c].tokens = Words(calls[c].input)
            /\ \A n \in Nodes : \A k \in 1..Len(NodeOf(n).preCheck) :
                  TimesChecked(c, n, k) <= 1

----------------------------------------------------------------------------
(* PgThemeManager.convertToCSS.                                            *)
(*                                                                         *)
(* A style bag (DefaultComponent) is the sequence of its own entries in    *)
(* the order of Object.keys; an entry is a key, a string of characters,    *)
(* and a value, a record of its typeof, its characters (a string, the    *)
(* digits of a number) and its entries (an object).  CSS text is a string  *)
(* of characters.                                                          *)

\* most entries of a style bag
MaxKeys == 2

Str(s) == [type |-> "string", text |-> s, bag |-> <<>>]
\* a number, held as its decimal digits
Num(digits) == [type |-> "number", text |-> digits, bag |-> <<>>]
Bool == [type |-> "boolean", text |-> <<>>, bag |-> <<>>]
Obj(bag) == [type |-> "object", text |-> <<>>, bag |-> bag]

Entry(key, value) == [key |-> key, value |-> value]

KeyBg == <<"b", "g">>
KeyColor == <<"c", "o", "l", "o", "r">>
KeyBorderRadius == <<"b", "o", "r", "d", "e", "r", "R", "a", "d", "i", "u", "s">>
KeyHover == <<"h", "o", "v", "e", "r">>
KeyActive == <<"a", "c", "t", "i", "v", "e">>
KeyFocus == <<"f", "o", "c", "u", "s">>
KeyFocusWithin == <<"f", "o", "c", "u", "s", "W", "i", "t", "h", "i", "n">>
KeyBefore == <<"b", "e", "f", "o", "r", "e">>
KeyAfter == <<"a", "f", "t", "e", "r">>

Background == <<"b", "a", "c", "k", "g", "r", "o", "u", "n", "d">>

\* the upper-case letters of the keys, with their lower case
UpperCase == {"R", "W"}

ToLowerCase(ch) == CASE ch = "R" -> "r" [] ch = "W" -> "w" [] OTHER -> ch

\* PgCommon.toKebabFromCamel(key): every upper-case letter becomes a
\* hyphen and the lower-case letter
RECURSIVE ToKebabFromCamel(_)
ToKebabFromCamel(key) ==
    IF key = <<>> THEN <<>>
    ELSE (IF Head(key) \in UpperCase
          THEN <<"-", ToLowerCase(Head(key))>>
          ELSE <<Head(key)>>) \o ToKebabFromCamel(Tail(key))

\* `${value}` of a string or a number: the characters of the string, the
\* decimal digits of the number
ValueToString(value) == value.text

PseudoClassKeys == {KeyHover, KeyActive, KeyFocus, KeyFocusWithin}

PseudoElementKeys == {KeyBefore, KeyAfter}

\* a conversion that writes a pseudo element with one colon
RECURSIVE ConvertToCSSOneColon(_)
ConvertToCSSOneColon(bag) ==
    IF bag = <<>> THEN <<>>
    ELSE LET key == bag[Len(bag)].key
             value == bag[Len(bag)].value
             acc == ConvertToCSSOneColon(SubSeq(bag, 1, Len(bag) - 1))
             prop == IF key = KeyBg THEN Background ELSE ToKebabFromCamel(key)
         IN IF key \in PseudoClassKeys \cup PseudoElementKeys
            THEN acc \o <<"&", ":">> \o prop \o <<"{">>
                     \o ConvertToCSSOneColon(value.bag) \o <<"}">>
            ELSE IF value.type \in {"string", "number"}
            THEN acc \o prop \o <<":">> \o ValueToString(value) \o <<";">>
            ELSE acc

\* lines 127-160: Object.keys(component).reduce(..., ""): the text of the
\* entries before the last one, then what the last entry adds
RECURSIVE ConvertToCSS(_)
ConvertToCSS(bag) ==
    IF bag = <<>> THEN <<>>
    ELSE LET key == bag[Len(bag)].key
             value == bag[Len(bag)].value
             acc == ConvertToCSS(SubSeq(bag, 1, Len(bag) - 1))
             prop == IF key = KeyBg THEN Background ELSE ToKebabFromCamel(key)
         IN IF key \in PseudoClassKeys
            THEN acc \o <<"&", ":">> \o prop \o <<"{">>
                     \o ConvertToCSS(value.bag) \o <<"}">>
            ELSE IF key \in PseudoElementKeys
            THEN acc \o <<"&", ":", ":">> \o prop \o <<"{">>
                     \o ConvertToCSS(value.bag) \o <<"}">>
            ELSE IF value.type \in {"string", "number"}
            THEN acc \o prop \o <<":">> \o ValueToString(value) \o <<";">>
            ELSE acc

\* the style bags convertToCSS is given: at most MaxKeys entries with
\* different keys; a pseudo key holds a style bag of fewer entries
Red == <<"r", "e", "d">>
Blue == <<"b", "l", "u", "e">>

PlainKeys == {KeyBg, KeyColor, KeyBorderRadius}

PseudoKeys == {KeyHover, KeyFocusWithin, KeyBefore}

BagsOf(entries, n) ==
    {bag \in UNION {[1..m -> entries] : m \in 0..n} :
        \A h, j \in 1..Len(bag) : h # j => bag[h].key # bag[j].key}

InnerBags == BagsOf({Entry(key, Str(Blue)) : key \in PlainKeys}, MaxKeys - 1)

Components ==
    BagsOf({Entry(key, value) :
                key \in PlainKeys, value \in {Str(Red), Num(<<"0">>), Bool, Obj(<<>>)}}
           \cup {Entry(key, Obj(bag)) : key \in PseudoKeys, bag \in InnerBags},
           MaxKeys)

NotConverted == [done |-> FALSE, text |-> <<>>]

\* convertToCSS(component) is called
Convert ==
    /\ ~css.done
    /\ css' = [done |-> TRUE, text |-> ConvertToCSS(component)]
    /\ UNCHANGED <<cmdVars, themeVars, component>>

InitCSS ==
    /\ commands = Built("Tree1")
    /\ NoCommand
    /\ NoThemeManager
    /\ component \in Components
    /\ css = NotConverted

NextCSS == Convert

SpecCSS == InitCSS /\ [][NextCSS]_vars

----------------------------------------------------------------------------
\* the CSS name of a key, as the rules of the converter give it
CssName(key) ==
    CASE key = KeyBg -> <<"b", "a", "c", "k", "g", "r", "o", "u", "n", "d">>
      [] key = KeyColor -> <<"c", "o", "l", "o", "r">>
      [] key = KeyBorderRadius ->
            <<"b", "o", "r", "d", "e", "r", "-", "r", "a", "d", "i", "u", "s">>
      [] key = KeyHover -> <<"h", "o", "v", "e", "r">>
      [] key = KeyFocusWithin ->
            <<"f", "o", "c", "u", "s", "-", "w", "i", "t", "h", "i", "n">>
      [] key = KeyBefore -> <<"b", "e", "f", "o", "r", "e">>

\* the text of a number or string value
ValueText(value) ==
    CASE value = Str(Red) -> Red
      [] value = Str(Blue) -> Blue
      [] value = Num(<<"0">>) -> <<"0">>

\* the rule for one entry of a bag whose pseudo keys hold flat bags
FlatRule(entry) ==
    IF entry.value.type \in {"string", "number"}
    THEN CssName(entry.key) \o <<":">> \o ValueText(entry.value) \o <<";">>
    ELSE <<>>

RECURSIVE Concat(_)
Concat(texts) == IF texts = <<>> THEN <<>> ELSE Head(texts) \o Concat(Tail(texts))

Rule(entry) ==
    IF entry.key \in {KeyHover, KeyFocusWithin}
    THEN <<"&", ":">> \o CssName(entry.key) \o <<"{">>
            \o Concat([j \in 1..Len(entry.value.bag) |-> FlatRule(entry.value.bag[j])])
            \o <<"}">>
    ELSE IF entry.key = KeyBefore
    THEN <<"&", ":", ":">> \o CssName(entry.key) \o <<"{">>
            \o Concat([j \in 1..Len(entry.value.bag) |-> FlatRule(entry.value.bag[j])])
            \o <<"}">>
    ELSE FlatRule(entry)

\* C19: for every style bag, convertToCSS returns the concatenation, in
\* the order of the keys of the bag, of `background:v;` for the key bg,
\* `&:pseudo-class{...}` around the conversion of the nested bag for hover
\* and focusWithin, `&::pseudo-element{...}` for before, `kebab-case-key:v;`
\* for another key with a string or number value, and nothing for another
\* value.
C19_ConvertToCSS ==
    css.done => css.text = Concat([j \in 1..Len(component) |-> Rule(component[j])])

\* { bg: "red", hover: { color: "blue" } } gave background:red;&:hover{color:blue;}
C19_Witness ==
    /\ css.done
    /\ component = <<Entry(KeyBg, Str(Red)),
                     Entry(KeyHover, Obj(<<Entry(KeyColor, Str(Blue))>>))>>
    /\ css.text = <<"b", "a", "c", "k", "g", "r", "o", "u", "n", "d", ":", "r", "e", "d", ";",
                    "&", ":", "h", "o", "v", "e", "r", "{",
                    "c", "o", "l", "o", "r", ":", "b", "l", "u", "e", ";", "}">>

----------------------------------------------------------------------------
(* PgThemeManager: themes and the steps that fill them.                    *)
(*                                                                         *)
(* A theme is a function from the paths of its present fields to their     *)
(* values: a path is the sequence of the keys from the theme object down   *)
(* to the field, the value of an object is Object and the value of a       *)
(* string is the sequence of its pieces.  A field whose value is undefined *)
(* is not in the domain.  A statement of a fill step is `path ??= value`.  *)
(* Of the statements of a step the model keeps the ones that create the    *)
(* objects on the way to the fields below and the ones listed; every       *)
(* statement left out is a `??=` of a literal or of a field listed here.   *)

Object == <<"{}">>

Has(t, path) == path \in DOMAIN t

Parent(path) == SubSeq(path, 1, Len(path) - 1)

\* the object tree as the value of the field at path
Under(path, tree) == [q \in {path \o r : r \in DOMAIN tree} |->
                         tree[SubSeq(q, Len(path) + 1, Len(q))]]

\* the pieces of a default value: a literal, or the value of a field
Lit(s) == [lit |-> s, ref |-> <<>>]
Ref(path) == [lit |-> "", ref |-> path]

\* path ??= {}
FillObject(path) == [path |-> path, kind |-> "value", parts |-> <<Lit("{}")>>, tree |-> <<>>]
\* path ??= the concatenation of the pieces
FillValue(path, parts) == [path |-> path, kind |-> "value", parts |-> parts, tree |-> <<>>]
\* path ??= an object that exists already
FillTree(path, tree) == [path |-> path, kind |-> "tree", parts |-> <<>>, tree |-> tree]

\* reading the field of a piece throws a TypeError when the object that
\* holds the field is undefined
PartThrows(t, part) == part.ref # <<>> /\ ~Has(t, Parent(part.ref))

PartValue(t, part) ==
    IF part.ref = <<>> THEN <<part.lit>>
    ELSE IF Has(t, part.ref) THEN t[part.ref]
    ELSE <<"undefined">>

RECURSIVE PartsValue(_, _)
PartsValue(t, parts) ==
    IF parts = <<>> THEN <<>>
    ELSE PartValue(t, Head(parts)) \o PartsValue(t, Tail(parts))

\* a statement that assigns: `a.b = v`
RunStmtAssign(r, stmt) ==
    IF r.thrown THEN r
    ELSE IF stmt.path # <<>> /\ ~Has(r.t, Parent(stmt.path)) THEN [r EXCEPT !.thrown = TRUE]
    ELSE IF stmt.kind = "tree" THEN [r EXCEPT !.t = Under(stmt.path, stmt.tree) @@ r.t]
    ELSE IF \E j \in 1..Len(stmt.parts) : PartThrows(r.t, stmt.parts[j])
         THEN [r EXCEPT !.thrown = TRUE]
    ELSE [r EXCEPT !.t = (stmt.path :> PartsValue(r.t, stmt.parts)) @@ r.t]

\* one statement on the run r = [t, thrown]: `a.b ??= v` throws when a is
\* undefined, evaluates v only when a.b is nullish, and leaves a.b
\* undefined when v is undefined
RunStmt(r, stmt) ==
    IF r.thrown THEN r
    ELSE IF stmt.path # <<>> /\ ~Has(r.t, Parent(stmt.path)) THEN [r EXCEPT !.thrown = TRUE]
    ELSE IF Has(r.t, stmt.path) THEN r
    ELSE IF stmt.kind = "tree" THEN [r EXCEPT !.t = Under(stmt.path, stmt.tree) @@ r.t]
    ELSE IF \E j \in 1..Len(stmt.parts) : PartThrows(r.t, stmt.parts[j])
         THEN [r EXCEPT !.thrown = TRUE]
    ELSE IF Len(stmt.parts) = 1 /\ stmt.parts[1].ref # <<>> /\ ~Has(r.t, stmt.parts[1].ref)
         THEN r
    ELSE [r EXCEPT !.t = (stmt.path :> PartsValue(r.t, stmt.parts)) @@ r.t]

RECURSIVE Run(_, _)
Run(r, stmts) ==
    IF stmts = <<>> THEN r
    ELSE LET next == RunStmt(r, Head(stmts))
         IN IF next.thrown THEN next ELSE Run(next, Tail(stmts))

\* the constants of ./default, as objects with the fields the steps read
Leaves(names) == (<<>> :> Object) @@ [p \in {<<n>> : n \in names} |-> <<"default", p[1]>>]

DEFAULT_FONT_OTHER ==
    (<<>> :> Object) @@ (<<"family">> :> <<"other">>) @@ Under(<<"size">>,
        Leaves({"xsmall", "small", "medium", "large", "xlarge"}))
DEFAULT_TRANSPARENCY == Leaves({"low", "medium", "high"})
DEFAULT_SCROLLBAR ==
    (<<>> :> Object) @@ Under(<<"dark">>, Leaves({"thumb"})) @@ Under(<<"light">>, Leaves({"thumb"}))
DEFAULT_TRANSITION ==
    (<<>> :> Object) @@ (<<"type">> :> <<"default", "type">>)
        @@ Under(<<"duration">>, Leaves({"short", "medium", "long"}))

\* the subtree of tree at path
Sub(tree, path) ==
    [r \in {SubSeq(q, Len(path) + 1, Len(q)) :
              q \in {q \in DOMAIN tree : Len(q) >= Len(path) /\ SubSeq(q, 1, Len(path)) = path}}
        |-> tree[path \o r]]

Colors(name) == Ref(<<"colors", "default", name>>)
StateColor(name, field) == Ref(<<"colors", "state", name, field>>)
Transparency(name) == Ref(<<"transparency", name>>)
CodeSize(name) == Ref(<<"font", "code", "size", name>>)
OtherSize(name) == Ref(<<"font", "other", "size", name>>)
Component(path) == <<"components">> \o path

\* lines 895-901; f is this._font, the empty tree when it is undefined
_theme_fonts(f) ==
    <<FillObject(<<"font">>)>>
    \o (IF DOMAIN f = {} THEN <<>> ELSE <<FillTree(<<"font", "code">>, f)>>)
    \o <<FillTree(<<"font", "other">>, DEFAULT_FONT_OTHER)>>

_transparency == <<FillTree(<<"transparency">>, DEFAULT_TRANSPARENCY)>>

_borderRadius == <<FillValue(<<"borderRadius">>, <<Lit("DEFAULT_BORDER_RADIUS")>>)>>

_boxShadow == <<FillValue(<<"boxShadow">>, <<Lit("DEFAULT_BOX_SHADOW")>>)>>

\* if (!this._theme.scrollbar): the dark or the light default
_scrollbar(t) ==
    <<FillTree(<<"scrollbar">>,
        IF Has(t, <<"isDark">>) /\ t[<<"isDark">>] = <<"true">>
        THEN Sub(DEFAULT_SCROLLBAR, <<"dark">>)
        ELSE Sub(DEFAULT_SCROLLBAR, <<"light">>))>>

_transition == <<FillTree(<<"transition">>, DEFAULT_TRANSITION)>>

StateNames == <<"disabled", "error", "hover", "info", "success", "warning">>

_stateColors ==
    [j \in 1..Len(StateNames) |->
        FillValue(<<"colors", "state", StateNames[j], "bg">>,
                  <<StateColor(StateNames[j], "color"), Transparency("low")>>)]

_components == <<FillObject(<<"components">>)>>

_skeleton ==
    << FillObject(Component(<<"skeleton">>)),
       FillValue(Component(<<"skeleton", "bg">>), <<Lit("#44475A")>>),
       FillValue(Component(<<"skeleton", "highlightColor">>), <<Lit("#343746")>>),
       FillValue(Component(<<"skeleton", "borderRadius">>), <<Ref(<<"borderRadius">>)>>) >>

_button ==
    << FillObject(Component(<<"button">>)),
       FillObject(Component(<<"button", "default">>)),
       FillValue(Component(<<"button", "default", "bg">>), <<Lit("transparent")>>),
       FillValue(Component(<<"button", "default", "color">>), <<Lit("inherit")>>),
       FillValue(Component(<<"button", "default", "borderColor">>), <<Lit("transparent")>>),
       FillValue(Component(<<"button", "default", "borderRadius">>), <<Ref(<<"borderRadius">>)>>),
       FillValue(Component(<<"button", "default", "fontSize">>), <<CodeSize("medium")>>),
       FillValue(Component(<<"button", "default", "fontWeight">>), <<Lit("normal")>>),
       FillObject(Component(<<"button", "default", "hover">>)) >>

_menu ==
    << FillObject(Component(<<"menu">>)),
       FillObject(Component(<<"menu", "default">>)),
       FillValue(Component(<<"menu", "default", "bg">>), <<Colors("bgPrimary")>>),
       FillValue(Component(<<"menu", "default", "borderRadius">>), <<Ref(<<"borderRadius">>)>>),
       FillValue(Component(<<"menu", "default", "padding">>), <<Lit("0.25rem 0")>>),
       FillValue(Component(<<"menu", "default", "boxShadow">>), <<Ref(<<"boxShadow">>)>>) >>

_input ==
    << FillObject(Component(<<"input">>)),
       FillValue(Component(<<"input", "bg">>), <<Colors("bgPrimary")>>),
       FillValue(Component(<<"input", "color">>), <<Colors("textPrimary")>>),
       FillValue(Component(<<"input", "borderColor">>), <<Colors("borderColor")>>),
       FillValue(Component(<<"input", "borderRadius">>), <<Ref(<<"borderRadius">>)>>),
       FillValue(Component(<<"input", "padding">>), <<Lit("0.25rem 0.5rem")>>),
       FillValue(Component(<<"input", "boxShadow">>), <<Lit("none")>>),
       FillValue(Component(<<"input", "fontWeight">>), <<Lit("normal")>>),
       FillValue(Component(<<"input", "fontSize">>), <<CodeSize("medium")>>),
       FillObject(Component(<<"input", "focus">>)),
       FillValue(Component(<<"input", "focus", "outline">>),
                 <<Lit("1px solid "), Colors("primary"), Transparency("medium")>>),
       FillObject(Component(<<"input", "focusWithin">>)),
       FillValue(Component(<<"input", "focusWithin", "outline">>),
                 <<Lit("1px solid "), Colors("primary"), Transparency("medium")>>) >>

_select ==
    << FillObject(Component(<<"select">>)),
       FillObject(Component(<<"select", "default">>)),
       FillValue(Component(<<"select", "default", "fontSize">>), <<CodeSize("small")>>),
       FillObject(Component(<<"select", "control">>)),
       FillValue(Component(<<"select", "control", "bg">>), <<Ref(Component(<<"input", "bg">>))>>),
       FillValue(Component(<<"select", "control", "minHeight">>), <<Lit("fit-content")>>),
       FillObject(Component(<<"select", "control", "hover">>)),
       FillValue(Component(<<"select", "control", "hover", "borderColor">>),
                 <<StateColor("hover", "color")>>),
       FillObject(Component(<<"select", "control", "focusWithin">>)),
       FillValue(Component(<<"select", "control", "focusWithin", "boxShadow">>),
                 <<Lit("0 0 0 1px "), Colors("primary"), Transparency("high")>>),
       FillObject(Component(<<"select", "menu">>)),
       FillValue(Component(<<"select", "menu", "bg">>), <<Ref(Component(<<"input", "bg">>))>>),
       FillValue(Component(<<"select", "menu", "color">>), <<Ref(Component(<<"input", "color">>))>>),
       FillObject(Component(<<"select", "option">>)),
       FillObject(Component(<<"select", "option", "before">>)),
       FillValue(Component(<<"select", "option", "before", "color">>), <<Colors("primary")>>),
       FillObject(Component(<<"select", "option", "focus">>)),
       FillValue(Component(<<"select", "option", "focus", "bg">>), <<StateColor("hover", "bg")>>),
       FillObject(Component(<<"select", "option", "active">>)),
       FillValue(Component(<<"select", "option", "active", "bg">>), <<StateColor("hover", "bg")>>) >>

_toast ==
    << FillObject(Component(<<"toast">>)),
       FillObject(Component(<<"toast", "default">>)),
       FillValue(Component(<<"toast", "default", "bg">>), <<Colors("bgPrimary")>>),
       FillValue(Component(<<"toast", "default", "fontFamily">>), <<Ref(<<"font", "code", "family">>)>>),
       FillValue(Component(<<"toast", "default", "fontSize">>), <<CodeSize("medium")>>),
       FillObject(Component(<<"toast", "progress">>)),
       FillValue(Component(<<"toast", "progress", "bg">>), <<Colors("primary")>>),
       FillObject(Component(<<"toast", "closeButton">>)),
       FillValue(Component(<<"toast", "closeButton", "color">>), <<Colors("textSecondary")>>) >>

_tooltip ==
    << FillObject(Component(<<"tooltip">>)),
       FillValue(Component(<<"tooltip", "bg">>), <<Colors("bgPrimary")>>),
       FillValue(Component(<<"tooltip", "borderRadius">>), <<Ref(<<"borderRadius">>)>>),
       FillValue(Component(<<"tooltip", "boxShadow">>), <<Ref(<<"boxShadow">>)>>),
       FillValue(Component(<<"tooltip", "fontSize">>), <<CodeSize("small")>>) >>

_markdown ==
    << FillObject(Component(<<"markdown">>)),
       FillObject(Component(<<"markdown", "default">>)),
       FillValue(Component(<<"markdown", "default", "bg">>), <<Lit("inherit")>>),
       FillValue(Component(<<"markdown", "default", "fontFamily">>),
                 <<Ref(<<"font", "other", "family">>)>>),
       FillValue(Component(<<"markdown", "default", "fontSize">>), <<OtherSize("medium")>>),
       FillObject(Component(<<"markdown", "code">>)),
       FillValue(Component(<<"markdown", "code", "bg">>), <<Colors("bgSecondary")>>),
       FillValue(Component(<<"markdown", "code", "fontSize">>), <<CodeSize("medium")>>) >>

_sidebar ==
    << FillObject(Component(<<"sidebar">>)),
       FillObject(Component(<<"sidebar", "default">>)),
       FillObject(Component(<<"sidebar", "left">>)),
       FillObject(Component(<<"sidebar", "left", "default">>)),
       FillValue(Component(<<"sidebar", "left", "default", "bg">>), <<Colors("bgPrimary")>>),
       FillValue(Component(<<"sidebar", "left", "default", "borderRight">>),
                 <<Lit("1px solid "), Colors("borderColor")>>),
       FillObject(Component(<<"sidebar", "left", "iconButton">>)),
       FillObject(Component(<<"sidebar", "left", "iconButton", "default">>)),
       FillObject(Component(<<"sidebar", "left", "iconButton", "selected">>)),
       FillValue(Component(<<"sidebar", "left", "iconButton", "selected", "bg">>),
                 <<StateColor("hover", "bg")>>),
       FillObject(Component(<<"sidebar", "right">>)),
       FillObject(Component(<<"sidebar", "right", "default">>)),
       FillValue(Component(<<"sidebar", "right", "default", "bg">>), <<Colors("bgSecondary")>>),
       FillObject(Component(<<"sidebar", "right", "title">>)),
       FillValue(Component(<<"sidebar", "right", "title", "fontSize">>), <<CodeSize("large")>>) >>

_editor ==
    << FillObject(<<"colors", "editor">>),
       FillValue(<<"colors", "editor", "bg">>, <<Colors("bgPrimary")>>),
       FillValue(<<"colors", "editor", "color">>, <<Colors("textPrimary")>>),
       FillObject(<<"colors", "editor", "activeLine">>),
       FillValue(<<"colors", "editor", "activeLine", "bg">>, <<Lit("inherit")>>),
       FillObject(<<"colors", "editor", "selection">>),
       FillValue(<<"colors", "editor", "selection", "bg">>,
                 <<Colors("primary"), Transparency("medium")>>),
       FillObject(<<"colors", "editor", "gutter">>),
       FillValue(<<"colors", "editor", "gutter", "bg">>, <<Ref(<<"colors", "editor", "bg">>)>>) >>

_home ==
    << FillObject(Component(<<"home">>)),
       FillObject(Component(<<"home", "default">>)),
       FillValue(Component(<<"home", "default", "bg">>), <<Colors("bgSecondary")>>),
       FillValue(Component(<<"home", "default", "height">>), <<Lit("100%")>>),
       FillObject(Component(<<"home", "title">>)),
       FillValue(Component(<<"home", "title", "color">>), <<Colors("textSecondary")>>),
       FillObject(Component(<<"home", "resources">>)),
       FillObject(Component(<<"home", "resources", "card">>)),
       FillObject(Component(<<"home", "resources", "card", "title">>)),
       FillValue(Component(<<"home", "resources", "card", "title", "fontSize">>),
                 <<CodeSize("xlarge")>>),
       FillObject(Component(<<"home", "tutorials">>)),
       FillObject(Component(<<"home", "tutorials", "card">>)),
       FillValue(Component(<<"home", "tutorials", "card", "transition">>),
                 <<Lit("all "), Ref(<<"transition", "duration", "medium">>), Lit(" "),
                   Ref(<<"transition", "type">>)>>),
       FillObject(Component(<<"home", "tutorials", "card", "hover">>)),
       FillValue(Component(<<"home", "tutorials", "card", "hover", "bg">>),
                 <<StateColor("hover", "bg")>>) >>

_terminal ==
    << FillObject(Component(<<"terminal">>)),
       FillObject(Component(<<"terminal", "default">>)),
       FillValue(Component(<<"terminal", "default", "bg">>), <<Colors("bgPrimary")>>),
       FillValue(Component(<<"terminal", "default", "borderTop">>),
                 <<Lit("1px solid "), Colors("primary"), Lit(";")>>),
       FillObject(Component(<<"terminal", "xterm">>)),
       FillValue(Component(<<"terminal", "xterm", "success">>), <<StateColor("success", "color")>>),
       FillObject(Component(<<"terminal", "xterm", "cursor">>)),
       FillValue(Component(<<"terminal", "xterm", "cursor", "accentColor">>),
                 <<Ref(Component(<<"terminal", "default", "bg">>))>>) >>

_bottom ==
    << FillObject(Component(<<"bottom">>)),
       FillObject(Component(<<"bottom", "default">>)),
       FillValue(Component(<<"bottom", "default", "bg">>), <<Colors("primary")>>),
       FillValue(Component(<<"bottom", "default", "color">>), <<Colors("textPrimary")>>),
       FillValue(Component(<<"bottom", "default", "fontSize">>), <<CodeSize("small")>>),
       FillObject(Component(<<"bottom", "connect">>)),
       FillObject(Component(<<"bottom", "connect", "hover">>)),
       FillValue(Component(<<"bottom", "connect", "hover", "bg">>),
                 <<Ref(Component(<<"bottom", "default", "color">>)), Transparency("low")>>),
       FillObject(Component(<<"bottom", "endpoint">>)),
       FillObject(Component(<<"bottom", "address">>)),
       FillObject(Component(<<"bottom", "balance">>)) >>

_tutorial ==
    << FillObject(Component(<<"tutorial">>)),
       FillObject(Component(<<"tutorial", "default">>)),
       FillValue(Component(<<"tutorial", "default", "bg">>), <<Colors("bgSecondary")>>),
       FillValue(Component(<<"tutorial", "default", "flex">>), <<Lit("1")>>),
       FillValue(Component(<<"tutorial", "default", "opacity">>), <<Lit("0")>>),
       FillValue(Component(<<"tutorial", "default", "transition">>),
                 <<Lit("opacity "), Ref(<<"transition", "duration", "medium">>), Lit(" "),
                   Ref(<<"transition", "type">>)>>),
       FillObject(Component(<<"tutorial", "aboutPage">>)),
       FillValue(Component(<<"tutorial", "aboutPage", "fontFamily">>),
                 <<Ref(<<"font", "other", "family">>)>>),
       FillObject(Component(<<"tutorial", "tutorialPage">>)),
       FillValue(Component(<<"tutorial", "tutorialPage", "fontSize">>), <<OtherSize("medium")>>) >>

_tutorials ==
    << FillObject(Component(<<"tutorials">>)),
       FillObject(Component(<<"tutorials", "default">>)),
       FillValue(Component(<<"tutorials", "default", "bg">>), <<Colors("bgSecondary")>>),
       FillObject(Component(<<"tutorials", "card">>)),
       FillObject(Component(<<"tutorials", "card", "default">>)),
       FillValue(Component(<<"tutorials", "card", "default", "boxShadow">>), <<Ref(<<"boxShadow">>)>>),
       FillObject(Component(<<"tutorials", "card", "gradient">>)),
       FillObject(Component(<<"tutorials", "card", "info">>)),
       FillObject(Component(<<"tutorials", "card", "info", "category">>)),
       FillValue(Component(<<"tutorials", "card", "info", "category", "bg">>),
                 <<Ref(Component(<<"tutorials", "default", "bg">>))>>),
       FillValue(Component(<<"tutorials", "card", "info", "category", "fontSize">>),
                 <<OtherSize("small")>>) >>

\* the chain with the step of the border radius as its last step
StepsBorderRadiusLast(t, f) ==
    <<_theme_fonts(f), _transparency, _boxShadow, _scrollbar(t),
      _transition, _stateColors, _components, _skeleton, _button, _menu, _input,
      _select, _toast, _tooltip, _markdown, _sidebar, _editor, _home, _terminal,
      _bottom, _tutorial, _tutorials, _borderRadius>>

\* lines 88-110: the chain of the steps, in its order, on the theme t with
\* the font f; a step that throws ends the chain and leaves the theme as
\* the steps before it and its own statements before the throw made it
Steps(t, f) ==
    <<_theme_fonts(f), _transparency, _borderRadius, _boxShadow, _scrollbar(t),
      _transition, _stateColors, _components, _skeleton, _button, _menu, _input,
      _select, _toast, _tooltip, _markdown, _sidebar, _editor, _home, _terminal,
      _bottom, _tutorial, _tutorials>>

RECURSIVE RunSteps(_, _)
RunSteps(r, steps) ==
    IF steps = <<>> THEN r
    ELSE LET next == Run(r, Head(steps))
         IN IF next.thrown THEN next ELSE RunSteps(next, Tail(steps))

SetDefaults(t, f) == RunSteps([t |-> t, thrown |-> FALSE], Steps(t, f))

\* structuredClone(module.default) with the name of the importable theme
Cloned(importableTheme) ==
    (<<"name">> :> <<importableTheme.name>>) @@ importableTheme.default

----------------------------------------------------------------------------
(* PgThemeManager.create and PgThemeManager.set.                           *)

\* most calls of set, the one of create included
NSets == 2

SetCalls == 1..NSets

\* a theme module with the fields the type PgTheme requires
BaseTheme(isDark) ==
    (<<>> :> Object) @@ (<<"isDark">> :> <<isDark>>)
    @@ (<<"colors">> :> Object)
    @@ Under(<<"colors", "default">>,
             Leaves({"bgPrimary", "bgSecondary", "primary", "secondary",
                     "textPrimary", "textSecondary", "borderColor"}))
    @@ (<<"colors", "state">> :> Object)
    @@ [p \in {<<"colors", "state", StateNames[j]>> : j \in 1..Len(StateNames)} |-> Object]
    @@ [p \in {<<"colors", "state", StateNames[j], "color">> : j \in 1..Len(StateNames)} |->
            <<"default", p[3]>>]

\* what a theme module may set besides: a top-level token, a derived
\* colour, a property of a component, a property of a pseudo state of a
\* component, its own code font
OwnFont ==
    (<<>> :> Object) @@ (<<"family">> :> <<"own">>) @@ Under(<<"size">>,
        [p \in DOMAIN Leaves({"xsmall", "small", "medium", "large", "xlarge"}) |->
            IF p = <<>> THEN Object ELSE <<"own", p[1]>>])

Extras ==
    [borderRadius |-> (<<"borderRadius">> :> <<"own", "borderRadius">>),
     hoverBg |-> (<<"colors", "state", "hover", "bg">> :> <<"own", "hoverBg">>),
     inputBg |-> (<<"components">> :> Object) @@ (<<"components", "input">> :> Object)
                 @@ (<<"components", "input", "bg">> :> <<"own", "inputBg">>),
     focusOutline |-> (<<"components">> :> Object) @@ (<<"components", "input">> :> Object)
                 @@ (<<"components", "input", "focus">> :> Object)
                 @@ (<<"components", "input", "focus", "outline">> :> <<"own", "outline">>),
     fontCode |-> (<<"font">> :> Object) @@ Under(<<"font", "code">>, OwnFont)]

RECURSIVE WithExtras(_, _)
WithExtras(t, names) ==
    IF names = {} THEN t
    ELSE LET n == CHOOSE n \in names : TRUE
         IN WithExtras(Extras[n] @@ t, names \ {n})

\* the lists create may be given: two themes, the first with some extras,
\* and two fonts
ThemeLists ==
    {<<[name |-> "T1", default |-> WithExtras(BaseTheme("true"), names)],
       [name |-> "T2", default |-> BaseTheme("false")]>> :
        names \in {{}, DOMAIN Extras} \cup {{n} : n \in DOMAIN Extras}}

FontTree(family) ==
    (<<>> :> Object) @@ (<<"family">> :> <<family>>) @@ Under(<<"size">>,
        [p \in DOMAIN Leaves({"xsmall", "small", "medium", "large", "xlarge"}) |->
            IF p = <<>> THEN Object ELSE <<family, p[1]>>])

Fonts == <<[family |-> "F1", tree |-> FontTree("F1")], [family |-> "F2", tree |-> FontTree("F2")]>>

\* null: what getItem returns for a key that is not stored, and a name
\* that set is not given
Null == "null"

\* what the storage of the browser may hold when the program starts
Stores ==
    {[theme |-> Null, font |-> Null], [theme |-> "T2", font |-> "F2"],
     [theme |-> "T2", font |-> Null], [theme |-> Null, font |-> "gone"],
     [theme |-> "gone", font |-> "F2"]}

\* the arguments of a call of set
Params == [themeName : {Null, "T1", "gone"}, fontFamily : {Null, "F2", "gone"}]

_THEME_KEY == "theme"
_FONT_KEY == "font"

\* the name without the storage: params.themeName ??= this._themes[0].name
ThemeNameNotStored(list, params) ==
    IF params.themeName # Null THEN params.themeName ELSE list[1].name

\* lines 68-69: params.themeName ??= localStorage.getItem(key) ?? this._themes[0].name
ThemeNameOf(list, params) ==
    IF params.themeName # Null THEN params.themeName
    ELSE IF localStorage[_THEME_KEY] # Null THEN localStorage[_THEME_KEY]
    ELSE list[1].name

\* lines 70-71: the same for the font family
FontFamilyOf(list, params) ==
    IF params.fontFamily # Null THEN params.fontFamily
    ELSE IF localStorage[_FONT_KEY] # Null THEN localStorage[_FONT_KEY]
    ELSE list[1].family

\* this._themes.find((t) => t.name === themeName): the place of the first
\* match, 0 for undefined
FindTheme(list, themeName) ==
    LET at == {j \in 1..Len(list) : list[j].name = themeName}
    IN IF at = {} THEN 0 ELSE CHOOSE j \in at : \A h \in at : j <= h

\* this._fonts.find((f) => f.family === fontFamily): the font, the empty
\* tree for undefined
FindFont(list, fontFamily) ==
    LET at == {j \in 1..Len(list) : list[j].family = fontFamily}
    IN IF at = {} THEN <<>> ELSE list[CHOOSE j \in at : \A h \in at : j <= h].tree

\* the chain on every theme and font of the lists, worked out once
SetDefaultsOf ==
    [t \in {Cloned(list[j]) : list \in ThemeLists, j \in 1..2},
     family \in {"F1", "F2", "gone"} |-> SetDefaults(t, FindFont(Fonts, family))]

IdleSet == [pc |-> "idle", params |-> [themeName |-> Null, fontFamily |-> Null],
            themeName |-> Null, fontFamily |-> Null]

\* lines 62-84: set(params) up to the await, with the lists as they are:
\* the two names, the two finds, and the call of importTheme, which throws
\* when no theme has the name
SetStarts(c, list, fontList, params) ==
    LET themeName == ThemeNameOf(list, params)
    IN sets' = [sets EXCEPT ![c] =
                  [pc |-> IF FindTheme(list, themeName) = 0 THEN "rejected" ELSE "importing",
                   params |-> params,
                   themeName |-> themeName,
                   fontFamily |-> FontFamilyOf(fontList, params)]]

\* lines 46-50: create(themes, fonts)
Create ==
    /\ themes = <<>>
    /\ \E list \in ThemeLists :
          /\ themes' = list
          /\ fonts' = Fonts
          /\ SetStarts(1, list, Fonts, [themeName |-> Null, fontFamily |-> Null])
    /\ UNCHANGED <<localStorage, theme, font, dispatched, cmdVars, cssVars>>

\* set(params) is called, after create
Set(c) ==
    /\ themes # <<>>
    /\ sets[c].pc = "idle"
    /\ \A d \in SetCalls : d < c => sets[d].pc # "idle"
    /\ \E params \in Params : SetStarts(c, themes, fonts, params)
    /\ UNCHANGED <<themes, fonts, localStorage, theme, font, dispatched, cmdVars, cssVars>>

\* the import of the theme module rejects: set rejects
ImportRejects(c) ==
    /\ sets[c].pc = "importing"
    /\ sets' = [sets EXCEPT ![c].pc = "rejected"]
    /\ UNCHANGED <<themes, fonts, localStorage, theme, font, dispatched, cmdVars, cssVars>>

\* lines 81-118: the import resolves: clone the module, name the theme,
\* take the font, run the steps, write the two keys and dispatch the two
\* events; all of it in one turn of the event loop.  When a step throws,
\* set rejects with the theme and the font as they are then.
ImportResolves(c) ==
    /\ sets[c].pc = "importing"
    /\ LET importableTheme == themes[FindTheme(themes, sets[c].themeName)]
           f == FindFont(fonts, sets[c].fontFamily)
           r == SetDefaultsOf[Cloned(importableTheme), sets[c].fontFamily]
       IN /\ theme' = r.t
          /\ font' = f
          /\ IF r.thrown
             THEN /\ sets' = [sets EXCEPT ![c].pc = "rejected"]
                  /\ UNCHANGED <<localStorage, dispatched>>
             ELSE /\ sets' = [sets EXCEPT ![c].pc = "resolved"]
                  /\ localStorage' = [theme |-> sets[c].themeName, font |-> sets[c].fontFamily]
                  /\ dispatched' = dispatched \o
                        <<[name |-> "THEME_SET", call |-> c, detail |-> r.t],
                          [name |-> "THEME_FONT_SET", call |-> c, detail |-> f]>>
    /\ UNCHANGED <<themes, fonts, cmdVars, cssVars>>

InitTheme ==
    /\ commands = Built("Tree1")
    /\ NoCommand
    /\ NoComponent
    /\ themes = <<>> /\ fonts = <<>>
    /\ theme = <<>> /\ font = <<>>
    /\ localStorage \in Stores
    /\ sets = [c \in SetCalls |-> IdleSet]
    /\ dispatched = <<>>

NextTheme ==
    \/ Create
    \/ \E c \in SetCalls : Set(c)
    \/ \E c \in SetCalls : ImportRejects(c)
    \/ \E c \in SetCalls : ImportResolves(c)

SpecTheme == InitTheme /\ [][NextTheme]_vars

----------------------------------------------------------------------------
\* the theme-changed events dispatched so far
ThemeEvents == {j \in 1..Len(dispatched) : dispatched[j].name = "THEME_SET"}

\* the module of the importable theme that call c of set imported
ModuleOf(c) == themes[FindTheme(themes, sets[c].themeName)].default

\* C15: default-filling never overwrites: every field that the importable
\* theme sets (a top-level token, a property of a component, a property of
\* a nested pseudo state) has in the resolved theme the value the
\* importable theme gave it.
C15_NeverOverwrites ==
    \A j \in ThemeEvents :
        \A path \in DOMAIN ModuleOf(dispatched[j].call) :
            /\ Has(dispatched[j].detail, path)
            /\ dispatched[j].detail[path] = ModuleOf(dispatched[j].call)[path]

\* the theme with all the extras was resolved: its own border radius and
\* outline are kept, and the border radius of the button derives from its
\* own border radius
C15_Witness ==
    \E j \in ThemeEvents :
        /\ DOMAIN Extras["focusOutline"] \subseteq DOMAIN ModuleOf(dispatched[j].call)
        /\ dispatched[j].detail[<<"borderRadius">>] = <<"own", "borderRadius">>
        /\ dispatched[j].detail[<<"components", "input", "focus", "outline">>] = <<"own", "outline">>
        /\ dispatched[j].detail[<<"components", "button", "default", "borderRadius">>] =
              <<"own", "borderRadius">>
        /\ dispatched[j].detail[<<"components", "input", "focusWithin", "outline">>] =
              <<"1px solid ", "default", "primary", "default", "medium">>


----------------------------------------------------------------------------
\* the chain run a second time, with the same font, on what the chain made
\* of every theme of the lists, worked out once
SetDefaultsTwice ==
    [t \in {Cloned(list[j]) : list \in ThemeLists, j \in 1..2},
     family \in {"F1", "F2", "gone"} |->
        SetDefaults(SetDefaultsOf[t, family].t, FindFont(Fonts, family))]

\* the chain run again on the theme that call c of set filled
FilledAgain(c) == SetDefaultsTwice[Cloned(themes[FindTheme(themes, sets[c].themeName)]),
                                   sets[c].fontFamily]

\* C16: theme filling is idempotent: the full chain of the steps, run a
\* second time with the same font on a theme that the chain filled, does
\* not throw and leaves every field as it is.
C16_Idempotent ==
    \A j \in ThemeEvents :
        /\ ~FilledAgain(dispatched[j].call).thrown
        /\ FilledAgain(dispatched[j].call).t = dispatched[j].detail

\* a theme module with the required fields only was filled: the chain gave
\* it the tokens and the fields that derive from them
C16_Witness ==
    \E j \in ThemeEvents :
        /\ ~Has(ModuleOf(dispatched[j].call), <<"borderRadius">>)
        /\ ~Has(ModuleOf(dispatched[j].call), <<"components">>)
        /\ dispatched[j].detail[<<"borderRadius">>] = <<"DEFAULT_BORDER_RADIUS">>
        /\ dispatched[j].detail[<<"components", "skeleton", "borderRadius">>] =
              <<"DEFAULT_BORDER_RADIUS">>
        /\ FilledAgain(dispatched[j].call).t = dispatched[j].detail


----------------------------------------------------------------------------
\* the fields that a statement fills
StmtPaths(stmt) ==
    IF stmt.kind = "tree" THEN {stmt.path \o p : p \in DOMAIN stmt.tree} ELSE {stmt.path}

\* the fields that the chain fills
DefaultFilled ==
    LET steps == Steps(BaseTheme("true"), FontTree("F1"))
    IN UNION {StmtPaths(steps[j][k]) : <<j, k>> \in
                 {jk \in (1..Len(steps)) \X (1..40) : jk[2] <= Len(steps[jk[1]])}}

FullyFormed(t) == DefaultFilled \subseteq DOMAIN t

\* the payload of every theme-changed event is fully formed
C17_EventsFullyFormed == \A j \in ThemeEvents : FullyFormed(dispatched[j].detail)

\* C17: between the turns of the event loop, overlapping calls of set and
\* failed calls of set included, the current theme and the payload of every
\* theme-changed event have every default-filled field, and a call of set
\* writes the storage and dispatches only after its last step.
C17_FullyFormed ==
    /\ DOMAIN theme # {} => FullyFormed(theme)
    /\ C17_EventsFullyFormed
    /\ \A c \in SetCalls :
          sets[c].pc # "resolved" => \A j \in 1..Len(dispatched) : dispatched[j].call # c


----------------------------------------------------------------------------
\* call c of set starts in this step
SetCalled(c) == sets[c].pc = "idle" /\ sets'[c].pc # "idle"

\* call c of set succeeds in this step
SetSucceeds(c) == sets[c].pc = "importing" /\ sets'[c].pc = "resolved"

\* the name that is stored under the key, and the first one of the list
\* when none is stored
StoredOrFirst(key, first) == IF localStorage[key] # Null THEN localStorage[key] ELSE first

\* C18: set called without a theme name uses the stored name, and the name
\* of the first theme of the list when none is stored; set called without a
\* font family does the same with the stored family and the first font;
\* each of the two whatever the other is; and a set that succeeds leaves
\* under the two keys the two names it used.
C18_Fallbacks ==
    [][\A c \in SetCalls :
          /\ SetCalled(c) /\ sets'[c].params.themeName = Null =>
                sets'[c].themeName = StoredOrFirst(_THEME_KEY, themes'[1].name)
          /\ SetCalled(c) /\ sets'[c].params.fontFamily = Null =>
                sets'[c].fontFamily = StoredOrFirst(_FONT_KEY, fonts'[1].family)
          /\ SetSucceeds(c) =>
                /\ localStorage'[_THEME_KEY] = sets[c].themeName
                /\ localStorage'[_FONT_KEY] = sets[c].fontFamily]_vars

\* a set with a font family and without a theme name succeeded: the theme
\* is the stored one, which is not the first of the list, the font the
\* given one, and the two keys hold the two names
C18_Witness ==
    \E c \in SetCalls :
        /\ sets[c].pc = "resolved"
        /\ sets[c].params = [themeName |-> Null, fontFamily |-> "F2"]
        /\ sets[c].themeName = "T2" /\ themes[1].name # "T2"
        /\ sets[c].fontFamily = "F2"
        /\ localStorage = [theme |-> "T2", font |-> "F2"]
        /\ theme[<<"name">>] = <<"T2">>


----------------------------------------------------------------------------
\* call d of set was issued while call c was awaiting its import: the
\* calls are numbered as they are issued, and c still awaits
Overlap(c, d) == c < d /\ sets[c].pc = "importing" /\ sets[d].pc # "idle"

\* calls c and d have succeeded and no later call was issued
BothComplete(c, d) ==
    /\ sets[c].pc = "resolved" /\ sets[d].pc = "resolved"
    /\ \A e \in SetCalls : e > d => sets[e].pc = "idle"

\* the last event of the name
LastEvent(name) ==
    LET at == {j \in 1..Len(dispatched) : dispatched[j].name = name}
    IN dispatched[CHOOSE j \in at : \A h \in at : h <= j]

\* the current theme and font, the two keys and the last two events are
\* those of call d
IsCurrent(d) ==
    /\ theme[<<"name">>] = <<sets[d].themeName>>
    /\ font = FindFont(fonts, sets[d].fontFamily)
    /\ localStorage = [theme |-> sets[d].themeName, font |-> sets[d].fontFamily]
    /\ LastEvent("THEME_SET").call = d
    /\ LastEvent("THEME_FONT_SET").call = d

\* C21: when two calls of set overlap (the second is issued while the
\* first awaits its import), then after both have completed the current
\* theme, the current font, the two stored keys and the last theme-changed
\* and font-changed events are those of the call issued later, in whatever
\* order the two imports resolve: in the step that completes the two,
\* whether it is the import of the earlier call that resolves last or the
\* import of the later one.
C21_LaterCallWins ==
    [][\A c, d \in SetCalls :
          /\ Overlap(c, d) /\ BothComplete(c, d)' => IsCurrent(d)'
          /\ c < d /\ sets[d].pc = "importing" /\ BothComplete(c, d)' => IsCurrent(d)']_vars

\* the step of C21 in which the import of the later call resolves last
C21_LaterResolvesLast ==
    [][\A c, d \in SetCalls :
          c < d /\ sets[d].pc = "importing" /\ BothComplete(c, d)' => IsCurrent(d)']_vars

\* the last sentence of C21: at every point the stored theme name is the
\* name of the current theme, once there is a current theme
C21_StoredIsCurrent ==
    [](DOMAIN theme # {} => <<localStorage[_THEME_KEY]>> = theme[<<"name">>])

\* no step of the chain throws
NoStepThrows == \A c \in SetCalls : FindFont(Fonts, sets[c].fontFamily) # <<>>

\* the last sentence of C21, as long as the font of every call of set is
\* registered
C21_StoredIsCurrentUnlessThrown ==
    [](NoStepThrows => (DOMAIN theme # {} => <<localStorage[_THEME_KEY]>> = theme[<<"name">>]))


----------------------------------------------------------------------------
\* call c of set fails in this step
SetFails(c) == sets[c].pc \in {"idle", "importing"} /\ sets'[c].pc = "rejected"

\* C22: a call of set that fails (the import of the theme rejects, or the
\* theme name or the font family, given or stored, is not registered)
\* leaves the current theme, the current font and the two stored keys as
\* they were and dispatches no theme-changed and no font-changed event.
C22_FailedSetChangesNothing ==
    [][\A c \in SetCalls :
          SetFails(c) => UNCHANGED <<theme, font, localStorage, dispatched>>]_vars

\* the same for the calls whose font family is registered: the import
\* rejects, or the theme name is not registered
C22_WithRegisteredFont ==
    [][\A c \in SetCalls :
          SetFails(c) /\ FindFont(fonts', sets'[c].fontFamily) # <<>>
             => UNCHANGED <<theme, font, localStorage, dispatched>>]_vars

\* a call of set with a name that is not registered fails
C22_NotRegisteredFails ==
    \A c \in SetCalls :
        sets[c].pc = "resolved" =>
            /\ FindTheme(themes, sets[c].themeName) # 0
            /\ FindFont(fonts, sets[c].fontFamily) # <<>>

====
